---- MODULE Spec2Model ----
(***************************************************************************)
(* Transcription backends of whis-core: the retry policy                   *)
(* (provider/base/retry.rs), the remote transcribe calls                   *)
(* (provider/base/openai_compatible.rs, provider/deepgram.rs,              *)
(* provider/elevenlabs.rs) and the local transcribe calls                  *)
(* (provider/local_whisper.rs, provider/local_parakeet.rs,                 *)
(* model_manager.rs).                                                      *)
(***************************************************************************)
EXTENDS Integers, Sequences, FiniteSets, TLC

VARIABLES
    provider,     \* backend the call runs on
    mode,         \* "sync" (transcribe_sync) or "async" (transcribe_async)
    mime_ok,      \* request.mime_type parses as a MIME type
    model_path,   \* api_key argument, repurposed as model path by local backends
    pc,           \* position of the call
    attempt,      \* `let mut attempt = 0`
    events,       \* stages delivered to request.report, in order
    requests,     \* requests handed to the HTTP client so far
    delays,       \* durations slept so far (ms), in order
    history,      \* outcomes of the requests so far, in order
    result,       \* what the call returned
    cache,        \* MODEL_CACHE slot
    keep_loaded,  \* KEEP_LOADED
    loads,        \* models loaded from disk so far
    calls,        \* local calls started so far
    fn_call,      \* pure-function harness: the call under evaluation
    fn_ret,       \* pure-function harness: its outcome
    disk,         \* model files that exist on disk
    last_done,    \* the local call that finished before the current one
    tasks,        \* concurrently dispatched remote calls, one per chunk
    worker,       \* the task the executor thread is running (0: none)
    lock,         \* the RwLock around MODEL_CACHE: its readers and its writer
    th,           \* threads using the model cache
    cache_ctx,    \* the WhisperContext in the slot (its load number; 0: none)
    freed,        \* WhisperContexts whose memory has been released
    cache_log,    \* the last unload, the successful get_model returns since, and
                  \* the latest return if it failed
    asm,          \* dispatcher / reassembler of one session
    vad,          \* voice-activity gate of one session
    hk,           \* macOS hotkey listener: keys down, triggered, callbacks made
    ipc           \* the service socket and the processes around it

remoteVars == <<mime_ok, attempt, requests, delays, history>>
localVars  == <<model_path, cache, keep_loaded, loads, calls>>
fnVars     == <<fn_call, fn_ret>>
parVars    == <<tasks, worker>>
mmVars     == <<lock, th, cache_ctx, freed, cache_log>>
sessVars   == <<asm, vad>>
cliVars    == <<hk, ipc>>
extVars    == <<disk, last_done, parVars, mmVars, sessVars, cliVars>>
vars == <<provider, mode, mime_ok, model_path, pc, attempt, events, requests,
          delays, history, result, cache, keep_loaded, loads, calls,
          fn_call, fn_ret, extVars>>

(***************************************************************************)
(* Bounds of the model.                                                    *)
(***************************************************************************)
MaxAttempt == 70        \* largest attempt number handed to delay_for_attempt
MaxCalls == 3           \* local transcribe calls per behaviour

(***************************************************************************)
(* RetryConfig::default                                                    *)
(***************************************************************************)
max_retries == 3
base_delay_ms == 1000
max_delay_ms == 16000
rate_limit_multiplier == 2

(***************************************************************************)
(* u64 arithmetic.  A u64 is four 16-bit limbs, least significant first;   *)
(* every operation also reports whether the exact result left the 64 bits. *)
(***************************************************************************)
LimbBase == 2^16

U64Of(n) == [v |-> <<n % LimbBase, n \div LimbBase, 0, 0>>, o |-> FALSE]

\* x * m in u64, for a multiplier m < 2^15
U64MulSmall(x, m) ==
    LET p0 == x.v[1] * m
        p1 == x.v[2] * m + (p0 \div LimbBase)
        p2 == x.v[3] * m + (p1 \div LimbBase)
        p3 == x.v[4] * m + (p2 \div LimbBase)
    IN  [v |-> <<p0 % LimbBase, p1 % LimbBase, p2 % LimbBase, p3 % LimbBase>>,
         o |-> x.o \/ (p3 \div LimbBase) > 0]

\* x.min(cap) for a cap < 2^16; the result fits one limb
U64MinSmall(x, cap) ==
    IF x.v[2] = 0 /\ x.v[3] = 0 /\ x.v[4] = 0 /\ x.v[1] <= cap
    THEN x.v[1] ELSE cap

\* 2u64.pow(exp): bit `exp` set when it is one of the 64 bits, else the
\* product has left them and the wrapped value is 0
U64Pow2(exp) ==
    IF exp >= 64 THEN [v |-> <<0, 0, 0, 0>>, o |-> TRUE]
    ELSE [v |-> [i \in 1..4 |-> IF i = (exp \div 16) + 1 THEN 2^(exp % 16) ELSE 0],
          o |-> FALSE]

(***************************************************************************)
(* RetryConfig::delay_for_attempt.  overflow_checks is the build setting:  *)
(* with it an overflowing `*` or `pow` panics, without it the value wraps. *)
(***************************************************************************)
Panicked == [panicked |-> TRUE, ms |-> 0]
Duration(ms) == [panicked |-> FALSE, ms |-> ms]

\* delay_for_attempt without the rate-limit multiplier
delay_for_attempt_NoMultiplier(att, rate_limited, overflow_checks) ==
    LET base_delay == U64MulSmall(U64Pow2(att), base_delay_ms)
        delay_ms == U64MinSmall(base_delay, max_delay_ms)
    IN  IF overflow_checks /\ base_delay.o THEN Panicked ELSE Duration(delay_ms)

\* delay_for_attempt with the exponent off by one: 2u64.pow(attempt + 1)
delay_for_attempt_ExponentOffByOne(att, rate_limited, overflow_checks) ==
    LET base_delay == U64MulSmall(U64Pow2(att + 1), base_delay_ms)
        delay_ms == U64MinSmall(base_delay, max_delay_ms)
    IN  IF overflow_checks /\ base_delay.o THEN Panicked
        ELSE IF rate_limited THEN Duration(delay_ms * rate_limit_multiplier)
        ELSE Duration(delay_ms)

delay_for_attempt(att, rate_limited, overflow_checks) ==
    LET base_delay == U64MulSmall(U64Pow2(att), base_delay_ms)
        delay_ms == U64MinSmall(base_delay, max_delay_ms)
    IN  IF overflow_checks /\ base_delay.o THEN Panicked
        ELSE IF rate_limited THEN Duration(delay_ms * rate_limit_multiplier)
        ELSE Duration(delay_ms)

\* is_retryable_status matching every client and server error
is_retryable_status_AnyError(status) == status >= 400

\* is_retryable_status without 504
is_retryable_status_No504(status) == status \in {408, 429, 500, 502, 503}

is_retryable_status(status) == status \in {408, 429, 500, 502, 503, 504}

is_rate_limited(status) == status = 429

\* reqwest::Error kinds; is_timeout() || is_connect() || is_request()
ErrorKinds == {"timeout", "connect", "request", "builder", "body"}

\* is_retryable_error without `|| err.is_request()`
is_retryable_error_NoRequest(err) == err \in {"timeout", "connect"}

is_retryable_error(err) == err \in {"timeout", "connect", "request"}

\* StatusCode::is_success
is_success(status) == 200 <= status /\ status <= 299

(***************************************************************************)
(* Remote transcribe calls.  "openai" is the OpenAI-compatible helper      *)
(* (OpenAI, Groq, Mistral); the three providers share the loop and differ  *)
(* in the request they build, the response they expect and their messages. *)
(***************************************************************************)
RemoteProviders == {"openai", "deepgram", "elevenlabs"}
LocalProviders == {"local-whisper", "local-parakeet"}
Modes == {"sync", "async"}

\* the providers that upload a multipart form (Part::mime_str can fail)
Multipart(p) == p \in {"openai", "elevenlabs"}

\* statuses a server answers with in the model
Statuses == {200, 204, 302, 400, 401, 403, 404, 408, 429, 500, 501, 502, 503, 504}

\* what a success response holds: a body of the expected shape, a body that
\* does not parse, a body that cannot be read, and (Deepgram) a well-formed
\* body with no channel or with a channel without alternatives
Shapes(p) == {"text", "malformed", "unreadable"}
             \cup (IF p = "deepgram" THEN {"nochannel", "noalt"} ELSE {})

\* the body of the response to the n-th request, and the transcript in it
Body(n) == <<"body", n>>
Text(n) == <<"text", n>>
UnknownError == <<"Unknown error", 0>>
NoBody == <<"", 0>>

NoResult == [kind |-> "none", ctx |-> "", status |-> 0, body |-> NoBody]
Ok(text) == [kind |-> "ok", ctx |-> "", status |-> 0, body |-> text]
Err(ctx, status, body) == [kind |-> "err", ctx |-> ctx, status |-> status, body |-> body]

\* anyhow::bail!("... API error ({status}): {error_text}")
ApiErrorCtx(p) ==
    CASE p = "openai" -> "API error"
      [] p = "deepgram" -> "Deepgram API error"
      [] p = "elevenlabs" -> "ElevenLabs API error"

\* the API error built without the status and body of the response
ApiError_Generic(p, status, error_text) == Err(ApiErrorCtx(p), 0, UnknownError)

ApiError(p, status, error_text) == Err(ApiErrorCtx(p), status, error_text)

\* return Err(err).context("Failed to send request ...")
SendErrorCtx(p) ==
    CASE p = "openai" -> "Failed to send request"
      [] p = "deepgram" -> "Failed to send request to Deepgram API"
      [] p = "elevenlabs" -> "Failed to send request to ElevenLabs API"

SendError(p, err, n) == Err(SendErrorCtx(p), 0, <<err, n>>)

ParseErrorCtx(p) ==
    CASE p = "openai" -> "Failed to parse API response"
      [] p = "deepgram" -> "Failed to parse Deepgram API response"
      [] p = "elevenlabs" -> "Failed to parse ElevenLabs API response"

\* the success branch falling back to an empty transcript when the body does
\* not hold one (unwrap_or_default in place of `?`)
ParseResponse_DefaultsToEmpty(p, shape, n) ==
    CASE shape = "unreadable" -> Err("Failed to get response text", 0, NoBody)
      [] shape \in {"malformed", "nochannel", "noalt"} -> Ok(NoBody)
      [] shape = "text" -> Ok(Text(n))

\* the `if status.is_success()` branch: read the body, parse it, take the text
ParseResponse(p, shape, n) ==
    CASE shape = "unreadable" -> Err("Failed to get response text", 0, NoBody)
      [] shape = "malformed" -> Err(ParseErrorCtx(p), 0, Body(n))
      [] shape \in {"nochannel", "noalt"} ->
            Err("Deepgram API returned unexpected response format: no transcript found",
                0, Body(n))
      [] shape = "text" -> Ok(Text(n))

\* the retry guard with `attempt <= config.max_retries`
ShouldRetryStatus_OffByOne(status, att) ==
    is_retryable_status(status) /\ att <= max_retries

\* `is_retryable_status(status) && attempt < config.max_retries`
ShouldRetryStatus(status, att) == is_retryable_status(status) /\ att < max_retries

\* `is_retryable_error(&err) && attempt < config.max_retries`
ShouldRetryError(err, att) == is_retryable_error(err) /\ att < max_retries

\* the build settings a binary can have: overflow checks on or off
Builds == BOOLEAN

Http(status, shape) == [kind |-> "http", status |-> status, detail |-> shape]
Transport(err) == [kind |-> "err", status |-> 0, detail |-> err]

EmptyCache == [loaded |-> FALSE, path |-> ""]

Idle == /\ model_path = "" /\ cache = EmptyCache
        /\ keep_loaded = FALSE /\ loads = 0 /\ calls = 0
NoFn == /\ fn_call = [fn |-> "none", attempt |-> 0, rate_limited |-> FALSE,
                      overflow_checks |-> FALSE, status |-> 0]
        /\ fn_ret = [done |-> FALSE, panicked |-> FALSE, ms |-> 0, bool |-> FALSE]

\* the model files present on disk when the program starts
ModelFiles == {"a.bin", "b.bin"}

NoCall == [provider |-> "", path |-> "", kind |-> "none", loads |-> 0]
NoLock == [readers |-> {}, writer |-> 0]

NoTasks == tasks = <<>> /\ worker = 0

NoThreads ==
    /\ lock = NoLock
    /\ th = <<>>
    /\ cache_ctx = 0
    /\ freed = {}
    /\ cache_log = <<>>

NoSession == asm = <<>>

NoGate == vad = <<>>

NoCli == hk = <<>> /\ ipc = <<>>

NoExt ==
    /\ disk = ModelFiles
    /\ NoCli
    /\ last_done = NoCall
    /\ NoTasks
    /\ NoThreads
    /\ NoSession
    /\ NoGate

Init ==
    /\ provider \in RemoteProviders
    /\ mode \in Modes
    /\ mime_ok \in BOOLEAN
    /\ pc = "start"
    /\ attempt = 0
    /\ events = <<>>
    /\ requests = 0
    /\ delays = <<>>
    /\ history = <<>>
    /\ result = NoResult
    /\ Idle
    /\ NoFn
    /\ NoExt

\* request.report(Uploading); the blocking variants build their client
Start ==
    /\ pc = "start"
    /\ events' = Append(events, "Uploading")
    /\ pc' = "loop"
    /\ UNCHANGED <<provider, mode, result, remoteVars, localVars, fnVars, extVars>>

\* Client::builder().build() fails (blocking variants only)
StartClientFail ==
    /\ pc = "start"
    /\ mode = "sync"
    /\ events' = Append(events, "Uploading")
    /\ result' = Err("Failed to create HTTP client", 0, NoBody)
    /\ pc' = "done"
    /\ UNCHANGED <<provider, mode, remoteVars, localVars, fnVars, extVars>>

\* Part::mime_str(&request.mime_type)? fails while the form is built
FormFail ==
    /\ pc = "loop"
    /\ Multipart(provider)
    /\ ~mime_ok
    /\ result' = Err("invalid mime type", 0, NoBody)
    /\ pc' = "done"
    /\ UNCHANGED <<provider, mode, events, remoteVars, localVars, fnVars, extVars>>

\* the loop reporting Uploading again on each attempt
Send_ReportsUploading ==
    /\ pc = "loop"
    /\ Multipart(provider) => mime_ok
    /\ events' = IF attempt = 0 THEN Append(events, "Transcribing")
                 ELSE events \o <<"Uploading", "Transcribing">>
    /\ requests' = requests + 1
    /\ pc' = "sent"
    /\ UNCHANGED <<provider, mode, mime_ok, attempt, delays, history, result,
                   localVars, fnVars, extVars>>

\* the blocking copy of the loop without its request.report(Transcribing)
Send_SyncSilent ==
    /\ pc = "loop"
    /\ Multipart(provider) => mime_ok
    /\ events' = IF mode = "sync" THEN events ELSE Append(events, "Transcribing")
    /\ requests' = requests + 1
    /\ pc' = "sent"
    /\ UNCHANGED <<provider, mode, mime_ok, attempt, delays, history, result,
                   localVars, fnVars, extVars>>

\* request.report(Transcribing); client.post(..).send()
Send ==
    /\ pc = "loop"
    /\ Multipart(provider) => mime_ok
    /\ events' = Append(events, "Transcribing")
    /\ requests' = requests + 1
    /\ pc' = "sent"
    /\ UNCHANGED <<provider, mode, mime_ok, attempt, delays, history, result,
                   localVars, fnVars, extVars>>

\* Ok(response) with a success status
RecvSuccess ==
    /\ pc = "sent"
    /\ \E status \in Statuses, shape \in Shapes(provider) :
        /\ is_success(status)
        /\ history' = Append(history, Http(status, shape))
        /\ result' = ParseResponse(provider, shape, requests)
    /\ pc' = "done"
    /\ UNCHANGED <<provider, mode, mime_ok, attempt, events, requests, delays,
                   localVars, fnVars, extVars>>

\* Ok(response) with a retryable status while attempts remain: sleep
RecvRetryStatus ==
    /\ pc = "sent"
    /\ \E status \in Statuses :
        /\ ~is_success(status)
        /\ ShouldRetryStatus(status, attempt)
        /\ history' = Append(history, Http(status, "-"))
        /\ \E oc \in Builds :
            LET delay == delay_for_attempt(attempt, is_rate_limited(status), oc)
            IN  /\ delays' = IF delay.panicked THEN delays ELSE Append(delays, delay.ms)
                /\ pc' = IF delay.panicked THEN "panicked" ELSE "sleep"
    /\ UNCHANGED <<provider, mode, mime_ok, attempt, events, requests, result,
                   localVars, fnVars, extVars>>

\* Ok(response) with any other status: bail with the status and the body
RecvApiError ==
    /\ pc = "sent"
    /\ \E status \in Statuses, error_text \in {Body(requests), UnknownError} :
        /\ ~is_success(status)
        /\ ~ShouldRetryStatus(status, attempt)
        /\ history' = Append(history, Http(status, "-"))
        /\ result' = ApiError(provider, status, error_text)
    /\ pc' = "done"
    /\ UNCHANGED <<provider, mode, mime_ok, attempt, events, requests, delays,
                   localVars, fnVars, extVars>>

\* Err(err) with a retryable error while attempts remain: sleep
RecvRetryError ==
    /\ pc = "sent"
    /\ \E err \in ErrorKinds :
        /\ ShouldRetryError(err, attempt)
        /\ history' = Append(history, Transport(err))
        /\ \E oc \in Builds :
            LET delay == delay_for_attempt(attempt, FALSE, oc)
            IN  /\ delays' = IF delay.panicked THEN delays ELSE Append(delays, delay.ms)
                /\ pc' = IF delay.panicked THEN "panicked" ELSE "sleep"
    /\ UNCHANGED <<provider, mode, mime_ok, attempt, events, requests, result,
                   localVars, fnVars, extVars>>

\* Err(err) otherwise: return it with context
RecvSendError ==
    /\ pc = "sent"
    /\ \E err \in ErrorKinds :
        /\ ~ShouldRetryError(err, attempt)
        /\ history' = Append(history, Transport(err))
        /\ result' = SendError(provider, err, requests)
    /\ pc' = "done"
    /\ UNCHANGED <<provider, mode, mime_ok, attempt, events, requests, delays,
                   localVars, fnVars, extVars>>

\* the transport-error branch without its `attempt += 1`
Wake_CountsStatusOnly ==
    /\ pc = "sleep"
    /\ attempt' = IF history[Len(history)].kind = "http" THEN attempt + 1 ELSE attempt
    /\ pc' = "loop"
    /\ UNCHANGED <<provider, mode, mime_ok, events, requests, delays, history,
                   result, localVars, fnVars, extVars>>

\* the sleep is over: attempt += 1; continue
Wake ==
    /\ pc = "sleep"
    /\ attempt' = attempt + 1
    /\ pc' = "loop"
    /\ UNCHANGED <<provider, mode, mime_ok, events, requests, delays, history,
                   result, localVars, fnVars, extVars>>

Next ==
    \/ Start
    \/ StartClientFail
    \/ FormFail
    \/ Send
    \/ RecvSuccess
    \/ RecvRetryStatus
    \/ RecvApiError
    \/ RecvRetryError
    \/ RecvSendError
    \/ Wake

Spec == Init /\ [][Next]_vars

(***************************************************************************)
(* Local transcribe calls: local_whisper.rs (through the model cache of    *)
(* model_manager.rs) and local_parakeet.rs.                                *)
(***************************************************************************)
\* model paths a caller passes; the last two are model files
Paths == {"", "missing.bin", "a.bin", "b.bin"}

\* std::path::Path::new(path).exists()
Exists(path) == path \in disk

\* get_model returning its guard without `*cache = Some(CachedModel {..})`
get_model_KeepsOldSlot(path, c) ==
    IF c.loaded /\ c.path = path
    THEN {[ok |-> TRUE, err |-> "", cache |-> c, loaded |-> FALSE]}
    ELSE IF path = ""
    THEN {[ok |-> FALSE, err |-> "Whisper model path not configured", cache |-> c,
           loaded |-> FALSE]}
    ELSE IF ~Exists(path)
    THEN {[ok |-> FALSE, err |-> "Whisper model not found", cache |-> c,
           loaded |-> FALSE]}
    ELSE {[ok |-> TRUE, err |-> "", cache |-> c, loaded |-> TRUE]}

\* get_model without the second check under the write lock
get_model_NoDoubleCheck(path, c) ==
    IF path = ""
    THEN {[ok |-> FALSE, err |-> "Whisper model path not configured", cache |-> c,
           loaded |-> FALSE]}
    ELSE IF ~Exists(path)
    THEN {[ok |-> FALSE, err |-> "Whisper model not found", cache |-> c,
           loaded |-> FALSE]}
    ELSE {[ok |-> TRUE, err |-> "", cache |-> [loaded |-> TRUE, path |-> path],
           loaded |-> TRUE]}

\* get_model without the Path::exists check
get_model_NoExistsCheck(path, c) ==
    IF c.loaded /\ c.path = path
    THEN {[ok |-> TRUE, err |-> "", cache |-> c, loaded |-> FALSE]}
    ELSE IF path = ""
    THEN {[ok |-> FALSE, err |-> "Whisper model path not configured", cache |-> c,
           loaded |-> FALSE]}
    ELSE {[ok |-> FALSE, err |-> "Failed to load whisper model", cache |-> c,
           loaded |-> FALSE],
          [ok |-> TRUE, err |-> "", cache |-> [loaded |-> TRUE, path |-> path],
           loaded |-> TRUE]}

\* get_model storing the loaded context in the slot before create_state:
\* a failing create_state leaves the new model cached
get_model_CachesBeforeState(path, c) ==
    IF c.loaded /\ c.path = path
    THEN {[ok |-> TRUE, err |-> "", cache |-> c, loaded |-> FALSE],
          [ok |-> FALSE, err |-> "Failed to create whisper state", cache |-> c,
           loaded |-> FALSE]}
    ELSE IF path = ""
    THEN {[ok |-> FALSE, err |-> "Whisper model path not configured", cache |-> c,
           loaded |-> FALSE]}
    ELSE IF ~Exists(path)
    THEN {[ok |-> FALSE, err |-> "Whisper model not found", cache |-> c,
           loaded |-> FALSE]}
    ELSE {[ok |-> FALSE, err |-> "Failed to load whisper model", cache |-> c,
           loaded |-> FALSE],
          [ok |-> FALSE, err |-> "Failed to create whisper state",
           cache |-> [loaded |-> TRUE, path |-> path], loaded |-> TRUE],
          [ok |-> TRUE, err |-> "", cache |-> [loaded |-> TRUE, path |-> path],
           loaded |-> TRUE]}

\* model_manager::get_model: every outcome it can have for `path` with the
\* slot holding `c`: the guard it returns or its error, the slot afterwards
\* and whether it read the model from disk
get_model(path, c) ==
    IF c.loaded /\ c.path = path
    THEN {[ok |-> TRUE, err |-> "", cache |-> c, loaded |-> FALSE],
          [ok |-> FALSE, err |-> "Failed to create whisper state", cache |-> c,
           loaded |-> FALSE]}
    ELSE IF path = ""
    THEN {[ok |-> FALSE, err |-> "Whisper model path not configured", cache |-> c,
           loaded |-> FALSE]}
    ELSE IF ~Exists(path)
    THEN {[ok |-> FALSE, err |-> "Whisper model not found", cache |-> c,
           loaded |-> FALSE]}
    ELSE {[ok |-> FALSE, err |-> "Failed to load whisper model", cache |-> c,
           loaded |-> FALSE],
          [ok |-> FALSE, err |-> "Failed to create whisper state", cache |-> c,
           loaded |-> TRUE],
          [ok |-> TRUE, err |-> "", cache |-> [loaded |-> TRUE, path |-> path],
           loaded |-> TRUE]}

\* model_manager::unload_model
unload_model(c) == EmptyCache

\* maybe_unload leaving the model in the slot whatever KEEP_LOADED says
maybe_unload_KeepsModel(c, keep) == c

\* model_manager::maybe_unload
maybe_unload(c, keep) == IF ~keep THEN unload_model(c) ELSE c

InitLocal ==
    /\ provider \in LocalProviders
    /\ mode \in Modes
    /\ model_path \in Paths
    /\ pc = "start"
    /\ events = <<>>
    /\ result = NoResult
    /\ cache = EmptyCache
    /\ keep_loaded = FALSE
    /\ loads = 0
    /\ calls = 1
    /\ mime_ok = TRUE /\ attempt = 0 /\ requests = 0
    /\ delays = <<>> /\ history = <<>>
    /\ NoFn
    /\ NoExt

\* transcribe_async: tokio::task::spawn_blocking(transcribe_local)
SpawnBlocking ==
    /\ pc = "start"
    /\ mode = "async"
    /\ pc' = "blocking"
    /\ UNCHANGED <<provider, mode, events, result, remoteVars, localVars, fnVars, extVars>>

\* transcribe_local reporting Uploading before Transcribing
LocalReport_WithUploading ==
    /\ \/ pc = "start" /\ mode = "sync"
       \/ pc = "blocking"
    /\ events' = events \o <<"Uploading", "Transcribing">>
    /\ pc' = "decode"
    /\ UNCHANGED <<provider, mode, result, remoteVars, localVars, fnVars, extVars>>

\* transcribe_local: request.report(Transcribing)
LocalReport ==
    /\ \/ pc = "start" /\ mode = "sync"
       \/ pc = "blocking"
    /\ events' = Append(events, "Transcribing")
    /\ pc' = "decode"
    /\ UNCHANGED <<provider, mode, result, remoteVars, localVars, fnVars, extVars>>

\* decode_and_resample / decode_mp3_to_samples
LocalDecode ==
    /\ pc = "decode"
    /\ \/ /\ pc' = "samples"
          /\ UNCHANGED result
       \/ /\ \E err \in {"MP3 decode error", "No audio data decoded from MP3",
                         "resample error"} :
                result' = Err(err, 0, NoBody)
          /\ pc' = "done"
    /\ UNCHANGED <<provider, mode, events, remoteVars, localVars, fnVars, extVars>>

\* local_whisper::transcribe_samples: model_manager::get_model(model_path)?
WhisperGetModel ==
    /\ pc = "samples"
    /\ provider = "local-whisper"
    /\ \E out \in get_model(model_path, cache) :
        /\ cache' = out.cache
        /\ loads' = IF out.loaded THEN loads + 1 ELSE loads
        /\ pc' = IF out.ok THEN "infer" ELSE "done"
        /\ result' = IF out.ok THEN result ELSE Err(out.err, 0, NoBody)
    /\ UNCHANGED <<provider, mode, events, remoteVars, model_path, keep_loaded,
                   calls, fnVars, extVars>>

\* state.full(params, samples).context("Transcription failed")?
WhisperInferFail ==
    /\ pc = "infer"
    /\ provider = "local-whisper"
    /\ result' = Err("Transcription failed", 0, NoBody)
    /\ pc' = "done"
    /\ UNCHANGED <<provider, mode, events, remoteVars, localVars, fnVars, extVars>>

\* the segments are read; drop(model_guard); maybe_unload(); Ok(text)
WhisperInferOk ==
    /\ pc = "infer"
    /\ provider = "local-whisper"
    /\ cache' = maybe_unload(cache, keep_loaded)
    /\ result' = Ok(Text(calls))
    /\ pc' = "done"
    /\ UNCHANGED <<provider, mode, events, remoteVars, model_path, keep_loaded,
                   loads, calls, fnVars, extVars>>

\* Parakeet keeping the model it loaded in the cache slot
ParakeetTranscribe_FillsCache ==
    /\ pc = "samples"
    /\ provider = "local-parakeet"
    /\ \E r \in {Err("Failed to load Parakeet model", 0, NoBody),
                 Err("Parakeet transcription failed", 0, NoBody),
                 Ok(Text(calls))} :
        /\ r.kind = "ok" => Exists(model_path)
        /\ r.ctx = "Parakeet transcription failed" => Exists(model_path)
        /\ result' = r
        /\ cache' = IF r.kind = "ok" THEN [loaded |-> TRUE, path |-> model_path]
                    ELSE cache
    /\ pc' = "done"
    /\ UNCHANGED <<provider, mode, events, remoteVars, model_path, keep_loaded,
                   loads, calls, fnVars, extVars>>

\* local_parakeet::transcribe_samples: load the model, transcribe
ParakeetTranscribe ==
    /\ pc = "samples"
    /\ provider = "local-parakeet"
    /\ \E r \in {Err("Failed to load Parakeet model", 0, NoBody),
                 Err("Parakeet transcription failed", 0, NoBody),
                 Ok(Text(calls))} :
        /\ r.kind = "ok" => Exists(model_path)
        /\ r.ctx = "Parakeet transcription failed" => Exists(model_path)
        /\ result' = r
    /\ pc' = "done"
    /\ UNCHANGED <<provider, mode, events, remoteVars, localVars, fnVars, extVars>>

\* model_manager::set_keep_loaded, called by the application at any time
SetKeepLoaded ==
    /\ \E keep \in BOOLEAN :
        /\ keep # keep_loaded
        /\ keep_loaded' = keep
    /\ UNCHANGED <<provider, mode, pc, events, result, remoteVars, model_path,
                   cache, loads, calls, fnVars, extVars>>

\* model_manager::unload_model, called by the application at any time
UnloadModel ==
    /\ cache.loaded
    /\ cache' = unload_model(cache)
    /\ UNCHANGED <<provider, mode, pc, events, result, remoteVars, model_path,
                   keep_loaded, loads, calls, fnVars, extVars>>

\* the caller transcribes the next recording
NextLocalCall ==
    /\ pc = "done"
    /\ calls < MaxCalls
    /\ calls' = calls + 1
    /\ last_done' = [provider |-> provider, path |-> model_path,
                     kind |-> result.kind, loads |-> loads]
    /\ provider' \in LocalProviders
    /\ mode' \in Modes
    /\ model_path' \in Paths
    /\ pc' = "start"
    /\ events' = <<>>
    /\ result' = NoResult
    /\ UNCHANGED <<remoteVars, cache, keep_loaded, loads, fnVars, disk, parVars,
                   mmVars, sessVars, cliVars>>

NextLocal ==
    \/ SpawnBlocking
    \/ LocalReport
    \/ LocalDecode
    \/ WhisperGetModel
    \/ WhisperInferFail
    \/ WhisperInferOk
    \/ ParakeetTranscribe
    \/ SetKeepLoaded
    \/ UnloadModel
    \/ NextLocalCall

SpecLocal == InitLocal /\ [][NextLocal]_vars

(***************************************************************************)
(* The model cache under concurrent callers: model_manager.rs with the     *)
(* RwLock around MODEL_CACHE, called by local_whisper::transcribe_samples  *)
(* on several threads.                                                     *)
(***************************************************************************)
NumThreads == 2
MaxGets == 3
Threads == 1..NumThreads

IdleThread == [pc |-> "idle", path |-> "", ctx |-> 0]

\* a lock guard that outlives its block
Released_Never(l, t) == l

\* the lock after thread t's guard (read or write) went out of scope
Released(l, t) ==
    [readers |-> l.readers \ {t}, writer |-> IF l.writer = t THEN 0 ELSE l.writer]

\* a thread whose get_model returned Ok(ModelGuard { state }), the state
\* created from WhisperContext number ctx
Holding(ctx) == [pc |-> "guard", path |-> "", ctx |-> ctx]

\* the fast path taking whatever model is cached, without `cached.path == path`
CacheHit_AnyPath(path, c) == c.loaded

\* `if let Some(ref cached) = *cache && cached.path == path`
CacheHit(path, c) == c.loaded /\ c.path = path

\* the WhisperContexts held by the WhisperState of some ModelGuard
Guards(t) == {t[i].ctx : i \in DOMAIN t} \ {0}

\* a WhisperContext freed as soon as the slot lets go of it
Unreferenced_SlotOnly(slot_ctx, t, n) == {c \in 1..n : c # slot_ctx}

\* the WhisperContexts (of the n loaded so far) that neither the slot nor a
\* WhisperState points to: their Arc count reached zero
Unreferenced(slot_ctx, t, n) == {c \in 1..n : c # slot_ctx /\ c \notin Guards(t)}

\* the log with one more get_model return; a failed return stays in the
\* log only until the next one
Logged(log, e) ==
    Append(IF log # <<>> /\ ~log[Len(log)].ok
           THEN SubSeq(log, 1, Len(log) - 1) ELSE log, e)

GetEvent(path, ok, err, loaded, via, ctx) ==
    [op |-> "get", path |-> path, ok |-> ok, err |-> err, loaded |-> loaded,
     via |-> via, ctx |-> ctx, exists |-> Exists(path)]

UnloadEvent ==
    [op |-> "unload", path |-> "", ok |-> TRUE, err |-> "", loaded |-> FALSE,
     via |-> "", ctx |-> 0, exists |-> FALSE]

InitCache ==
    /\ provider = "local-whisper"
    /\ mode = "sync"
    /\ model_path = ""
    /\ pc = "start"
    /\ events = <<>>
    /\ result = NoResult
    /\ cache = EmptyCache
    /\ keep_loaded = FALSE
    /\ loads = 0
    /\ calls = 0
    /\ mime_ok = TRUE /\ attempt = 0 /\ requests = 0
    /\ delays = <<>> /\ history = <<>>
    /\ NoFn
    /\ disk = ModelFiles
    /\ NoCli
    /\ last_done = NoCall
    /\ NoTasks
    /\ NoSession
    /\ NoGate
    /\ lock = NoLock
    /\ th = [t \in Threads |-> IdleThread]
    /\ cache_ctx = 0
    /\ freed = {}
    /\ cache_log = <<>>

cacheFrame == <<provider, mode, model_path, pc, events, result, remoteVars,
                fnVars, last_done, parVars, sessVars, cliVars>>

\* transcribe_samples: model_manager::get_model(model_path), up to
\* get_cache().read().unwrap()
CallGetModel(t) ==
    /\ th[t].pc = "idle"
    /\ calls < MaxGets
    /\ calls' = calls + 1
    /\ lock.writer = 0
    /\ lock' = [lock EXCEPT !.readers = @ \cup {t}]
    /\ \E path \in {""} \cup ModelFiles :
        th' = [th EXCEPT ![t] = [pc |-> "fast", path |-> path, ctx |-> 0]]
    /\ UNCHANGED <<cacheFrame, cache, keep_loaded, loads, disk, cache_ctx,
                   freed, cache_log>>

\* the block under the read lock: a hit creates the state and returns, a
\* miss falls through to the write lock
FastPath(t) ==
    /\ th[t].pc = "fast"
    /\ lock' = Released(lock, t)
    /\ IF CacheHit(th[t].path, cache)
       THEN \/ /\ th' = [th EXCEPT ![t] = Holding(cache_ctx)]
               /\ cache_log' = Logged(cache_log,
                     GetEvent(th[t].path, TRUE, "", FALSE, "fast", cache_ctx))
            \/ /\ th' = [th EXCEPT ![t] = IdleThread]
               /\ cache_log' = Logged(cache_log,
                     GetEvent(th[t].path, FALSE, "Failed to create whisper state",
                              FALSE, "fast", 0))
       ELSE /\ th' = [th EXCEPT ![t].pc = "write"]
            /\ UNCHANGED cache_log
    /\ UNCHANGED <<cacheFrame, cache, keep_loaded, loads, calls, disk, cache_ctx,
                   freed>>

\* get_cache().write().unwrap()
AcquireWrite(t) ==
    /\ th[t].pc = "write"
    /\ lock = NoLock
    /\ lock' = [lock EXCEPT !.writer = t]
    /\ th' = [th EXCEPT ![t].pc = "slow"]
    /\ UNCHANGED <<cacheFrame, cache, keep_loaded, loads, calls, disk, cache_ctx,
                   freed, cache_log>>

\* the block under the write lock: double check, validation, load,
\* create_state, `*cache = Some(..)`; the lock is released at its end
SlowPath(t) ==
    /\ th[t].pc = "slow"
    /\ \E out \in get_model(th[t].path, cache) :
        LET n == IF out.loaded THEN loads + 1 ELSE loads
            slot == IF out.ok /\ out.loaded THEN n ELSE cache_ctx
            got == IF out.ok THEN slot ELSE 0
            via == IF out.loaded THEN "load"
                   ELSE IF out.ok \/ CacheHit(th[t].path, cache) THEN "recheck"
                   ELSE "error"
        IN  /\ cache' = out.cache
            /\ loads' = n
            /\ cache_ctx' = slot
            /\ th' = [th EXCEPT ![t] = IF out.ok
                                       THEN Holding(got)
                                       ELSE IdleThread]
            /\ cache_log' = Logged(cache_log,
                  GetEvent(th[t].path, out.ok, out.err, out.loaded, via, got))
            /\ freed' = freed \cup Unreferenced(slot, th', n)
    /\ lock' = Released(lock, t)
    /\ UNCHANGED <<cacheFrame, keep_loaded, calls, disk>>

\* state.full(..).context("Transcription failed")?: the call returns its
\* error, dropping the guard, without reaching maybe_unload
FullFail(t) ==
    /\ th[t].pc = "guard"
    /\ th' = [th EXCEPT ![t] = IdleThread]
    /\ freed' = freed \cup Unreferenced(cache_ctx, th', loads)
    /\ UNCHANGED <<cacheFrame, cache, keep_loaded, loads, calls, disk, lock,
                   cache_ctx, cache_log>>

\* state.full succeeded, the segments are read: drop(model_guard)
FullOk(t) ==
    /\ th[t].pc = "guard"
    /\ th' = [th EXCEPT ![t] = [IdleThread EXCEPT !.pc = "unload"]]
    /\ freed' = freed \cup Unreferenced(cache_ctx, th', loads)
    /\ UNCHANGED <<cacheFrame, cache, keep_loaded, loads, calls, disk, lock,
                   cache_ctx, cache_log>>

\* model_manager::should_keep_loaded: KEEP_LOADED.load(SeqCst)
should_keep_loaded(keep) == keep

\* model_manager::maybe_unload(): `if !should_keep_loaded()`, the flag read
\* before unload_model() asks for the write lock
MaybeUnload(t) ==
    /\ th[t].pc = "unload"
    /\ th' = [th EXCEPT ![t] = IF should_keep_loaded(keep_loaded)
                               THEN IdleThread
                               ELSE [IdleThread EXCEPT !.pc = "unloading"]]
    /\ UNCHANGED <<cacheFrame, cache, keep_loaded, loads, calls, disk, lock,
                   cache_ctx, freed, cache_log>>

\* the unload_model() that maybe_unload calls: write lock, `*cache = None`,
\* lock released at the end of the function
UnloadLocked(t) ==
    /\ th[t].pc = "unloading"
    /\ lock = NoLock
    /\ cache' = unload_model(cache)
    /\ cache_ctx' = 0
    /\ cache_log' = IF cache.loaded THEN <<UnloadEvent>> ELSE cache_log
    /\ th' = [th EXCEPT ![t] = IdleThread]
    /\ freed' = freed \cup Unreferenced(0, th', loads)
    /\ UNCHANGED <<cacheFrame, keep_loaded, loads, calls, disk, lock>>

\* model_manager::unload_model(), called by the application
AppUnload ==
    /\ lock = NoLock
    /\ cache.loaded
    /\ cache' = unload_model(cache)
    /\ cache_ctx' = 0
    /\ cache_log' = <<UnloadEvent>>
    /\ freed' = freed \cup Unreferenced(0, th, loads)
    /\ UNCHANGED <<cacheFrame, keep_loaded, loads, calls, disk, lock, th>>

\* model_manager::set_keep_loaded(keep), called by the application
AppSetKeepLoaded ==
    /\ keep_loaded' = ~keep_loaded
    /\ UNCHANGED <<cacheFrame, cache, loads, calls, disk, mmVars>>

\* the user removes a model file
DeleteFile ==
    /\ \E f \in disk : disk' = disk \ {f}
    /\ UNCHANGED <<cacheFrame, cache, keep_loaded, loads, calls, mmVars>>

NextCache ==
    \/ \E t \in Threads : CallGetModel(t)
    \/ \E t \in Threads : FastPath(t)
    \/ \E t \in Threads : AcquireWrite(t)
    \/ \E t \in Threads : SlowPath(t)
    \/ \E t \in Threads : FullFail(t)
    \/ \E t \in Threads : FullOk(t)
    \/ \E t \in Threads : MaybeUnload(t)
    \/ \E t \in Threads : UnloadLocked(t)
    \/ AppUnload
    \/ AppSetKeepLoaded
    \/ DeleteFile

SpecCache == InitCache /\ [][NextCache]_vars

(***************************************************************************)
(* Remote calls for several chunks on one scheduler thread.  A blocking    *)
(* call occupies the thread until it returns; a non-blocking call gives    *)
(* it up at every .await: send, reading the body, the retry sleep.         *)
(***************************************************************************)
NumTasks == 2
TaskIds == 1..NumTasks

NotSeen == [by |-> 0, stage |-> 0]

\* a retry sleep that blocks the thread in the non-blocking variant too
HoldsThread_Always(m) == TRUE

\* whether a call keeps the thread while it waits: reqwest::blocking and
\* std::thread::sleep do, `.send().await` and `tokio::time::sleep(..).await`
\* do not
HoldsThread(m) == m = "sync"

\* task u can run: the thread is free or u itself occupies it
CanRun(u) == worker \in {0, u}

\* what a sleeping task saw of the others: u sent a request during the sleep
SawSend(t, u) ==
    [i \in TaskIds |->
        IF i # u /\ t[i].pc = "sleep" /\ t[i].seen = NotSeen
        THEN [t[i] EXCEPT !.seen = [by |-> u, stage |-> 1]]
        ELSE t[i]]

\* ... and u, having sent during the sleep, resolved during it
SawResolve(t, u) ==
    [i \in TaskIds |->
        IF i # u /\ t[i].pc = "sleep" /\ t[i].seen = [by |-> u, stage |-> 1]
        THEN [t[i] EXCEPT !.seen = [by |-> u, stage |-> 2]]
        ELSE t[i]]

InitPar ==
    /\ provider \in RemoteProviders
    /\ mode = "async"
    /\ mime_ok = TRUE
    /\ pc = "start"
    /\ attempt = 0 /\ requests = 0
    /\ events = <<>> /\ delays = <<>> /\ history = <<>>
    /\ result = NoResult
    /\ Idle
    /\ NoFn
    /\ disk = ModelFiles
    /\ NoCli
    /\ last_done = NoCall
    /\ NoThreads
    /\ NoSession
    /\ NoGate
    /\ tasks \in [TaskIds -> {[mode |-> m, pc |-> "loop", attempt |-> 0,
                              kind |-> "none", seen |-> NotSeen] : m \in Modes}]
    /\ worker = 0

parFrame == <<provider, mode, mime_ok, pc, attempt, events, requests, delays,
              history, result, localVars, fnVars, disk, last_done, mmVars, sessVars,
              cliVars>>

\* client.post(..).send(): the request of the current attempt goes out
TaskSend(u) ==
    /\ tasks[u].pc = "loop"
    /\ CanRun(u)
    /\ tasks' = SawSend([tasks EXCEPT ![u].pc = "sent"], u)
    /\ worker' = IF HoldsThread(tasks[u].mode) THEN u ELSE 0
    /\ UNCHANGED parFrame

\* the response (or the transport error) of the current attempt: success
\* and final errors resolve the call, a retryable failure with attempts
\* left starts the retry sleep
TaskRecv(u) ==
    /\ tasks[u].pc = "sent"
    /\ CanRun(u)
    /\ \/ /\ \E status \in Statuses : is_success(status)
          /\ tasks' = SawResolve([tasks EXCEPT ![u].pc = "done", ![u].kind = "ok"], u)
          /\ worker' = 0
       \/ /\ \/ \E status \in Statuses :
                   ~is_success(status) /\ ~ShouldRetryStatus(status, tasks[u].attempt)
             \/ \E err \in ErrorKinds : ~ShouldRetryError(err, tasks[u].attempt)
          /\ tasks' = SawResolve([tasks EXCEPT ![u].pc = "done", ![u].kind = "err"], u)
          /\ worker' = 0
       \/ /\ \/ \E status \in Statuses :
                   ~is_success(status) /\ ShouldRetryStatus(status, tasks[u].attempt)
             \/ \E err \in ErrorKinds : ShouldRetryError(err, tasks[u].attempt)
          /\ tasks' = [tasks EXCEPT ![u].pc = "sleep", ![u].seen = NotSeen]
          /\ worker' = IF HoldsThread(tasks[u].mode) THEN u ELSE 0
    /\ UNCHANGED parFrame

\* the retry sleep is over: attempt += 1, next iteration
TaskWake(u) ==
    /\ tasks[u].pc = "sleep"
    /\ CanRun(u)
    /\ tasks' = [tasks EXCEPT ![u].pc = "loop", ![u].attempt = @ + 1,
                              ![u].seen = NotSeen]
    /\ UNCHANGED <<worker, parFrame>>

NextPar ==
    \/ \E u \in TaskIds : TaskSend(u)
    \/ \E u \in TaskIds : TaskRecv(u)
    \/ \E u \in TaskIds : TaskWake(u)

SpecPar == InitPar /\ [][NextPar]_vars

(***************************************************************************)
(* One session of the dispatcher / reassembler (spec sections 4.8 and 5):  *)
(* chunks are emitted with consecutive indices, dispatched to the backend, *)
(* their results arrive in any order and are stored by index, and the      *)
(* final transcript is put together once the stream has ended.             *)
(***************************************************************************)
MaxChunks == 3

\* DEFAULT_CHUNK_DURATION_SECS
chunk_duration == 90

\* the word only chunk i contains
Word(i) == <<"w", i>>

\* the transcripts a backend can return for chunk i: its own word, and for
\* a chunk with leading overlap possibly the previous chunk's last word
\* once more in front of it
ChunkTexts(i) ==
    IF i = 0 THEN {<<Word(0)>>} ELSE {<<Word(i)>>, <<Word(i - 1), Word(i)>>}

\* every chunk is marked as carrying a leading overlap
Chunk_AlwaysOverlap(i) == [index |-> i, has_leading_overlap |-> TRUE]

\* AudioChunk of the i-th emission
Chunk(i) == [index |-> i, has_leading_overlap |-> i > 0]

\* the index -> result map after inserting the arrivals one by one (a later
\* insertion for an index replaces an earlier one)
ByIndex(arr) ==
    [i \in {arr[k].index : k \in DOMAIN arr} |->
        LET last == CHOOSE k \in DOMAIN arr :
                       /\ arr[k].index = i
                       /\ \A j \in DOMAIN arr : arr[j].index = i => j <= k
        IN  arr[last].text]

\* the trimming heuristic: when a chunk's text starts with the word the
\* previous chunk's text ends with, that leading word is dropped
TrimOverlap(prev, cur) ==
    IF prev # <<>> /\ cur # <<>> /\ cur[1] = prev[Len(prev)] THEN Tail(cur) ELSE cur

\* the indices with a result
Present(arr) == {arr[k].index : k \in DOMAIN arr}

\* a set of indices as an increasing sequence
RECURSIVE SortedIndices(_)
SortedIndices(S) ==
    IF S = {} THEN <<>>
    ELSE LET m == CHOOSE x \in S : \A y \in S : y <= x
         IN  Append(SortedIndices(S \ {m}), m)

\* the first n results joined; a result that follows the result of the
\* chunk just before it is trimmed
RECURSIVE Join(_, _)
Join(items, n) ==
    IF n = 0 THEN <<>>
    ELSE Join(items, n - 1)
         \o (IF n > 1 /\ items[n].index = items[n - 1].index + 1
             THEN TrimOverlap(items[n - 1].text, items[n].text)
             ELSE items[n].text)

\* the results joined in the order in which they arrived
Assemble_ArrivalOrder(arr, n) == Join(arr, Len(arr))

\* the transcript of a session of n chunks: the stored results in index
\* order, joined
Assemble(arr, n) ==
    LET idx == SortedIndices(Present(arr) \cap 0..(n - 1))
        items == [k \in DOMAIN idx |-> [index |-> idx[k], text |-> ByIndex(arr)[idx[k]]]]
    IN  Join(items, Len(items))

\* a result is stored whether or not its chunk was abandoned
Insert_EvenAbandoned(arr, ab, i, text) == Append(arr, [index |-> i, text |-> text])

\* the map after the result of chunk i came in: the result of an abandoned
\* chunk is dropped
Insert(arr, ab, i, text) ==
    IF i \in ab THEN arr ELSE Append(arr, [index |-> i, text |-> text])

\* a final transcript before end-of-stream, once nothing is outstanding
CanFinalize_IgnoresEos(a) ==
    /\ a.finals = <<>>
    /\ a.emitted > 0
    /\ 0..(a.emitted - 1) \subseteq Present(a.arrived)

\* the final transcript may be produced: the stream has ended, every index
\* 0..N-1 has its result (or was abandoned), and none was produced before
CanFinalize(a) ==
    /\ a.finals = <<>>
    /\ a.eos
    /\ 0..(a.emitted - 1) \subseteq (Present(a.arrived) \cup a.abandoned)

\* seconds of audio the capture thread hands over at a time
BlockSecs == {30, 45}

\* the capture thread keeps appending after the session was stopped
MayCapture_AfterStop(a) == TRUE

\* the capture thread appends samples: until it is stopped
MayCapture(a) == a.capturing /\ ~a.eos

\* the flush emits a final chunk even when nothing is buffered
FlushEmits_Always(buffer) == TRUE

\* the flush at the end of the stream emits the remainder, if there is one
FlushEmits(buffer) == buffer > 0

\* chunks are handed to the backend as soon as they are queued
MayDispatch_Always(a, p, i) == TRUE

\* the concurrency policy: a remote backend takes several chunks at once, a
\* local backend one at a time in index order
MayDispatch(a, p, i) ==
    p \in LocalProviders => (a.inflight = {} /\ \A j \in a.pending : i <= j)

\* the chunker state after emitting a chunk of `secs` seconds of new audio
Emitted(a, secs) ==
    [a EXCEPT !.out = Append(@, [chunk |-> Chunk(a.emitted), secs |-> secs]),
              !.emitted = @ + 1,
              !.pending = @ \cup {Chunk(a.emitted).index}]

InitAsm ==
    /\ provider \in RemoteProviders \cup LocalProviders
    /\ mode = "async"
    /\ mime_ok = TRUE
    /\ pc = "start"
    /\ attempt = 0 /\ requests = 0
    /\ events = <<>> /\ delays = <<>> /\ history = <<>>
    /\ result = NoResult
    /\ Idle
    /\ NoFn
    /\ disk = ModelFiles
    /\ NoCli
    /\ last_done = NoCall
    /\ NoTasks
    /\ NoThreads
    /\ NoGate
    /\ asm = [capturing |-> TRUE, captured |-> 0, buffer |-> 0, out |-> <<>>,
              emitted |-> 0, eos |-> FALSE, pending |-> {}, inflight |-> {},
              arrived |-> <<>>, failed |-> {}, abandoned |-> {}, zombies |-> {},
              late |-> {}, finals |-> <<>>, partial |-> FALSE]

asmFrame == <<provider, mode, mime_ok, pc, attempt, events, requests, delays,
              history, result, localVars, fnVars, disk, last_done, parVars, mmVars, vad,
              cliVars>>

\* the capture thread appends a block of samples; the chunker emits a chunk
\* when the buffered duration reaches chunk_duration and keeps the rest
PushSamples ==
    /\ MayCapture(asm)
    /\ \E block \in BlockSecs :
        /\ asm.captured + block <= MaxChunks * chunk_duration
        /\ LET total == asm.buffer + block
               a == [asm EXCEPT !.captured = @ + block]
           IN  asm' = IF total >= chunk_duration
                      THEN [Emitted(a, chunk_duration) EXCEPT
                               !.buffer = total - chunk_duration]
                      ELSE [a EXCEPT !.buffer = total]
    /\ UNCHANGED asmFrame

\* the session is stopped (or the input ends): the capture thread stops
StopCapture ==
    /\ asm.capturing
    /\ asm' = [asm EXCEPT !.capturing = FALSE]
    /\ UNCHANGED asmFrame

\* the chunker is flushed and end-of-stream is signaled: N is now known
SignalEos ==
    /\ ~asm.capturing
    /\ ~asm.eos
    /\ asm' = [(IF FlushEmits(asm.buffer) THEN Emitted(asm, asm.buffer) ELSE asm)
                  EXCEPT !.buffer = 0, !.eos = TRUE]
    /\ UNCHANGED asmFrame

\* the dispatcher hands a chunk to the backend
Dispatch ==
    /\ \E i \in asm.pending :
        /\ MayDispatch(asm, provider, i)
        /\ asm' = [asm EXCEPT !.pending = @ \ {i}, !.inflight = @ \cup {i}]
    /\ UNCHANGED asmFrame

\* a chunk resolves: its text is inserted by index
Resolve ==
    /\ \E i \in asm.inflight : \E text \in ChunkTexts(i) :
        asm' = [asm EXCEPT !.inflight = @ \ {i},
                           !.arrived = Insert(@, asm.abandoned, i, text)]
    /\ UNCHANGED asmFrame

\* the failure of one chunk throws the stored results away
Failed_DropsResults(a, i) ==
    [a EXCEPT !.inflight = @ \ {i}, !.failed = @ \cup {i}, !.arrived = <<>>]

\* the session after chunk i failed: the error is recorded, the stored
\* results stay
Failed(a, i) == [a EXCEPT !.inflight = @ \ {i}, !.failed = @ \cup {i}]

\* a chunk's transcription fails
ChunkFail ==
    /\ \E i \in asm.inflight : asm' = Failed(asm, i)
    /\ UNCHANGED asmFrame

\* the reassembler produces the final transcript
Finalize ==
    /\ CanFinalize(asm)
    /\ asm' = [asm EXCEPT !.finals = Append(@, Assemble(asm.arrived, asm.emitted)),
                          !.partial = asm.abandoned # {}]
    /\ UNCHANGED asmFrame

NextAsm ==
    \/ PushSamples
    \/ StopCapture
    \/ SignalEos
    \/ Dispatch
    \/ Resolve
    \/ ChunkFail
    \/ Finalize

SpecAsm == InitAsm /\ [][NextAsm]_vars

\* the caller's cancellation signal after the stop: what is queued or in
\* flight is abandoned; the calls in flight may still return later
Cancel ==
    /\ asm.eos
    /\ asm.finals = <<>>
    /\ asm.pending \cup asm.inflight # {}
    /\ asm' = [asm EXCEPT !.abandoned = @ \cup asm.pending \cup asm.inflight,
                          !.zombies = @ \cup asm.inflight,
                          !.pending = {}, !.inflight = {}]
    /\ UNCHANGED asmFrame

\* the call of an abandoned chunk returns after all (late: the indices
\* whose result came in after the cancellation)
LateResult ==
    /\ \E i \in asm.zombies : \E text \in ChunkTexts(i) :
        asm' = [asm EXCEPT !.zombies = @ \ {i},
                           !.late = @ \cup {i},
                           !.arrived = Insert(@, asm.abandoned, i, text)]
    /\ UNCHANGED asmFrame

NextCancel ==
    \/ NextAsm
    \/ Cancel
    \/ LateResult

SpecCancel == InitAsm /\ [][NextCancel]_vars

(***************************************************************************)
(* The VAD gate (section 4.2): one frame at a time.  Probabilities are in  *)
(* percent, so DEFAULT_VAD_THRESHOLD = 0.5 is 50.                          *)
(***************************************************************************)
\* frames fed to the gate in one run of the model
MaxFrames == 6

\* DEFAULT_VAD_THRESHOLD, in percent
vad_threshold == 50

\* the documented run length: consecutive frames above the threshold that
\* turn Silence into Speech
speech_run == 3

\* consecutive frames not above the threshold that turn Speech into Silence
silence_run == 2

\* speech probability of a frame, in percent: below, at and above the
\* threshold
Probabilities == {20, 50, 80}

\* a frame counts as speech when its probability exceeds the threshold
Exceeds(p, threshold) == p > threshold

\* the gate opens on the first frame above the threshold
EnoughSpeech_OneFrame(run) == run >= 1

\* the run of frames above the threshold is long enough to open the gate
EnoughSpeech(run) == run >= speech_run

\* the gate after the frame with probability p
GateStep(g, p) ==
    LET above == Exceeds(p, vad_threshold)
        run == IF above THEN g.run + 1 ELSE 0
        quiet == IF above THEN 0 ELSE g.quiet + 1
        state == CASE g.state = "Silence" /\ EnoughSpeech(run) -> "Speech"
                   [] g.state = "Speech" /\ quiet >= silence_run -> "Silence"
                   [] OTHER -> g.state
    IN  IF g.enabled
        THEN [g EXCEPT !.state = state,
                       !.run = IF state = g.state THEN run ELSE 0,
                       !.quiet = IF state = g.state THEN quiet ELSE 0,
                       !.frames = Append(@, p)]
        ELSE [g EXCEPT !.frames = Append(@, p)]

InitVad ==
    /\ provider = "deepgram"
    /\ mode = "async"
    /\ mime_ok = TRUE
    /\ pc = "start"
    /\ attempt = 0 /\ requests = 0
    /\ events = <<>> /\ delays = <<>> /\ history = <<>>
    /\ result = NoResult
    /\ Idle
    /\ NoFn
    /\ disk = ModelFiles
    /\ NoCli
    /\ last_done = NoCall
    /\ NoTasks
    /\ NoThreads
    /\ NoSession
    /\ \E enabled \in BOOLEAN :
        vad = [enabled |-> enabled,
               state |-> IF enabled THEN "Silence" ELSE "Speech",
               run |-> 0, quiet |-> 0, frames |-> <<>>]

vadFrame == <<provider, mode, mime_ok, pc, attempt, events, requests, delays,
              history, result, localVars, fnVars, disk, last_done, parVars, mmVars, asm,
              cliVars>>

\* the gate classifies the next frame
ProcessFrame ==
    /\ Len(vad.frames) < MaxFrames
    /\ \E p \in Probabilities : vad' = GateStep(vad, p)
    /\ UNCHANGED vadFrame

NextVad == ProcessFrame

SpecVad == InitVad /\ [][NextVad]_vars

(***************************************************************************)
(* The macOS hotkey listener of whis-cli (hotkey/unix_like.rs): the        *)
(* callback rdev::listen runs for every keyboard event, one at a time.     *)
(***************************************************************************)
\* keyboard events handed to the callback in one run of the model
MaxKeyEvents == 6

\* the keys of the model: the hotkey Ctrl+Alt+W and one key outside it
Keys == {"ctrl", "alt", "w", "x"}
hotkey_modifiers == {"ctrl", "alt"}
main_key == "w"

\* Hotkey::is_pressed(&keys): every key of the combination is down
is_pressed(keys) == hotkey_modifiers \subseteq keys /\ main_key \in keys

\* the KeyPress arm without the `if *triggered { return; }`
OnKeyPress_NoTriggeredCheck(h, key) ==
    LET keys == h.keys \cup {key}
    IN  IF is_pressed(keys)
        THEN [h EXCEPT !.keys = keys, !.triggered = TRUE,
                       !.calls = Append(@, "on_press")]
        ELSE [h EXCEPT !.keys = keys]

\* EventType::KeyPress(key)
OnKeyPress(h, key) ==
    LET keys == h.keys \cup {key}
    IN  IF h.triggered THEN [h EXCEPT !.keys = keys]
        ELSE IF is_pressed(keys)
        THEN [h EXCEPT !.keys = keys, !.triggered = TRUE,
                       !.calls = Append(@, "on_press")]
        ELSE [h EXCEPT !.keys = keys]

\* EventType::KeyRelease(key)
OnKeyRelease(h, key) ==
    LET keys == h.keys \ {key}
    IN  IF key = main_key /\ h.triggered
        THEN [h EXCEPT !.keys = keys, !.triggered = FALSE,
                       !.calls = Append(@, "on_release")]
        ELSE [h EXCEPT !.keys = keys]

InitHotkey ==
    /\ provider = "none" /\ mode = "sync" /\ pc = "done"
    /\ events = <<>> /\ result = NoResult
    /\ mime_ok = TRUE /\ attempt = 0 /\ requests = 0
    /\ delays = <<>> /\ history = <<>>
    /\ Idle
    /\ NoFn
    /\ disk = ModelFiles
    /\ last_done = NoCall
    /\ NoTasks
    /\ NoThreads
    /\ NoSession
    /\ NoGate
    /\ ipc = <<>>
    /\ hk = [keys |-> {}, triggered |-> FALSE, calls |-> <<>>, events |-> 0,
             last |-> "none"]

hotkeyFrame == <<provider, mode, mime_ok, pc, attempt, events, requests, delays,
                 history, result, localVars, fnVars, disk, last_done, parVars,
                 mmVars, sessVars, ipc>>

\* a key goes down, or repeats while it is held
KeyPress ==
    /\ hk.events < MaxKeyEvents
    /\ \E key \in Keys :
        hk' = [OnKeyPress(hk, key) EXCEPT !.events = @ + 1, !.last = "press"]
    /\ UNCHANGED hotkeyFrame

\* a key goes up
KeyRelease ==
    /\ hk.events < MaxKeyEvents
    /\ \E key \in Keys :
        hk' = [OnKeyRelease(hk, key) EXCEPT !.events = @ + 1, !.last = "release"]
    /\ UNCHANGED hotkeyFrame

\* any other event (mouse, wheel): `_ => {}`
OtherEvent ==
    /\ hk.events < MaxKeyEvents
    /\ hk' = [hk EXCEPT !.events = @ + 1, !.last = "other"]
    /\ UNCHANGED hotkeyFrame

NextHotkey ==
    \/ KeyPress
    \/ KeyRelease
    \/ OtherEvent

SpecHotkey == InitHotkey /\ [][NextHotkey]_vars

(***************************************************************************)
(* The service socket of whis-cli (ipc.rs, Unix): the socket file at       *)
(* socket_name(), services that create an IpcServer on it and a process    *)
(* that asks is_service_running().  ipc.file is 0 when there is no file    *)
(* and otherwise the server whose bind created it.                         *)
(***************************************************************************)
NumServers == 2
MaxChecks == 2
Servers == 1..NumServers

\* socket_path.exists()
SocketExists(file) == file # 0

\* LocalSocketStream::connect(name) succeeds: the file is there and the
\* listener that created it is still open
Connects(file, listening) == file # 0 /\ file \in listening

\* std::fs::remove_file(&socket_path) succeeds
CanRemove(file) == file # 0

InitIpc ==
    /\ provider = "none" /\ mode = "sync" /\ pc = "done"
    /\ events = <<>> /\ result = NoResult
    /\ mime_ok = TRUE /\ attempt = 0 /\ requests = 0
    /\ delays = <<>> /\ history = <<>>
    /\ Idle
    /\ NoFn
    /\ disk = ModelFiles
    /\ last_done = NoCall
    /\ NoTasks
    /\ NoThreads
    /\ NoSession
    /\ NoGate
    /\ hk = <<>>
    /\ ipc = [file |-> 0, listening |-> {},
              srv |-> [s \in Servers |-> "none"],
              chk |-> [pc |-> "idle", ret |-> "none", n |-> 0]]

ipcFrame == <<provider, mode, mime_ok, pc, attempt, events, requests, delays,
              history, result, localVars, fnVars, disk, last_done, parVars,
              mmVars, sessVars, hk>>

\* a service starts: IpcServer::new() is entered
ServerNew(s) ==
    /\ ipc.srv[s] = "none"
    /\ ipc' = [ipc EXCEPT !.srv[s] = "check"]
    /\ UNCHANGED ipcFrame

\* IpcServer::new: `if socket_path.exists()`
ServerExists(s) ==
    /\ ipc.srv[s] = "check"
    /\ ipc' = [ipc EXCEPT !.srv[s] = IF SocketExists(ipc.file) THEN "remove" ELSE "bind"]
    /\ UNCHANGED ipcFrame

\* IpcServer::new: remove_file(&socket_path).context(..)?
ServerRemoveOld(s) ==
    /\ ipc.srv[s] = "remove"
    /\ ipc' = IF CanRemove(ipc.file)
              THEN [ipc EXCEPT !.file = 0, !.srv[s] = "bind"]
              ELSE [ipc EXCEPT !.srv[s] = "failed"]
    /\ UNCHANGED ipcFrame

\* IpcServer::new: ListenerOptions::new().name(name).create_sync()?
ServerBind(s) ==
    /\ ipc.srv[s] = "bind"
    /\ ipc' = IF SocketExists(ipc.file)
              THEN [ipc EXCEPT !.srv[s] = "failed"]
              ELSE [ipc EXCEPT !.file = s, !.listening = @ \cup {s}, !.srv[s] = "up"]
    /\ UNCHANGED ipcFrame

\* the service handles IpcMessage::Stop (sent by `whis stop` or by `whis
\* restart`, which goes on to start a new service 200 ms later)
ServerStop(s) ==
    /\ ipc.srv[s] = "up"
    /\ ipc' = [ipc EXCEPT !.srv[s] = "stopping"]
    /\ UNCHANGED ipcFrame

\* Drop for IpcServer: `let _ = remove_file(self.socket_path.as_path())`
ServerDrop(s) ==
    /\ ipc.srv[s] = "stopping"
    /\ ipc' = [ipc EXCEPT !.file = 0, !.srv[s] = "dropped"]
    /\ UNCHANGED ipcFrame

\* the stopped service's process ends: its listener is closed
ServerExit(s) ==
    /\ ipc.srv[s] = "dropped"
    /\ ipc' = [ipc EXCEPT !.listening = @ \ {s}, !.srv[s] = "gone"]
    /\ UNCHANGED ipcFrame

\* the service is killed: no drop runs, the socket file stays behind
ServerCrash(s) ==
    /\ ipc.srv[s] = "up"
    /\ ipc' = [ipc EXCEPT !.listening = @ \ {s}, !.srv[s] = "gone"]
    /\ UNCHANGED ipcFrame

\* is_service_running() is called
CheckCall ==
    /\ ipc.chk.pc = "idle"
    /\ ipc.chk.n < MaxChecks
    /\ ipc' = [ipc EXCEPT !.chk = [pc |-> "exists", ret |-> "none", n |-> @.n + 1]]
    /\ UNCHANGED ipcFrame

\* is_service_running: `if !socket_path.exists() { return false; }`
CheckExists ==
    /\ ipc.chk.pc = "exists"
    /\ ipc' = IF SocketExists(ipc.file)
              THEN [ipc EXCEPT !.chk.pc = "connect"]
              ELSE [ipc EXCEPT !.chk.pc = "idle", !.chk.ret = "false"]
    /\ UNCHANGED ipcFrame

\* is_service_running: `match LocalSocketStream::connect(name)`
CheckConnect ==
    /\ ipc.chk.pc = "connect"
    /\ ipc' = IF Connects(ipc.file, ipc.listening)
              THEN [ipc EXCEPT !.chk.pc = "idle", !.chk.ret = "true"]
              ELSE [ipc EXCEPT !.chk.pc = "cleanup"]
    /\ UNCHANGED ipcFrame

\* is_service_running: `let _ = remove_file(&socket_path); false`
CheckCleanup ==
    /\ ipc.chk.pc = "cleanup"
    /\ ipc' = [ipc EXCEPT !.file = 0, !.chk.pc = "idle", !.chk.ret = "false"]
    /\ UNCHANGED ipcFrame

NextIpc ==
    \/ \E s \in Servers : ServerNew(s)
    \/ \E s \in Servers : ServerExists(s)
    \/ \E s \in Servers : ServerRemoveOld(s)
    \/ \E s \in Servers : ServerBind(s)
    \/ \E s \in Servers : ServerStop(s)
    \/ \E s \in Servers : ServerDrop(s)
    \/ \E s \in Servers : ServerExit(s)
    \/ \E s \in Servers : ServerCrash(s)
    \/ CheckCall
    \/ CheckExists
    \/ CheckConnect
    \/ CheckCleanup

SpecIpc == InitIpc /\ [][NextIpc]_vars

(***************************************************************************)
(* The functions of retry.rs on their own: one call, evaluated once.       *)
(***************************************************************************)
FnCall(fn, att, rate_limited, overflow_checks, status) ==
    [fn |-> fn, attempt |-> att, rate_limited |-> rate_limited,
     overflow_checks |-> overflow_checks, status |-> status]

FnPending == [done |-> FALSE, panicked |-> FALSE, ms |-> 0, bool |-> FALSE]
FnDuration(d) == [done |-> TRUE, panicked |-> d.panicked, ms |-> d.ms, bool |-> FALSE]
FnBool(b) == [done |-> TRUE, panicked |-> FALSE, ms |-> 0, bool |-> b]

InitFn ==
    /\ fn_call \in
         {FnCall("delay_for_attempt", att, rl, oc, 0) :
             att \in 0..MaxAttempt, rl \in BOOLEAN, oc \in Builds}
         \cup {FnCall(fn, 0, FALSE, FALSE, status) :
                 fn \in {"is_retryable_status", "is_rate_limited"},
                 status \in 100..599}
    /\ fn_ret = FnPending
    /\ provider = "none" /\ mode = "sync" /\ pc = "done"
    /\ events = <<>> /\ result = NoResult
    /\ mime_ok = TRUE /\ attempt = 0 /\ requests = 0
    /\ delays = <<>> /\ history = <<>>
    /\ Idle
    /\ NoExt

EvalDelayForAttempt ==
    /\ ~fn_ret.done
    /\ fn_call.fn = "delay_for_attempt"
    /\ fn_ret' = FnDuration(delay_for_attempt(fn_call.attempt, fn_call.rate_limited,
                                              fn_call.overflow_checks))
    /\ UNCHANGED <<provider, mode, pc, events, result, remoteVars, localVars, fn_call, extVars>>

EvalIsRetryableStatus ==
    /\ ~fn_ret.done
    /\ fn_call.fn = "is_retryable_status"
    /\ fn_ret' = FnBool(is_retryable_status(fn_call.status))
    /\ UNCHANGED <<provider, mode, pc, events, result, remoteVars, localVars, fn_call, extVars>>

EvalIsRateLimited ==
    /\ ~fn_ret.done
    /\ fn_call.fn = "is_rate_limited"
    /\ fn_ret' = FnBool(is_rate_limited(fn_call.status))
    /\ UNCHANGED <<provider, mode, pc, events, result, remoteVars, localVars, fn_call, extVars>>

NextFn ==
    \/ EvalDelayForAttempt
    \/ EvalIsRetryableStatus
    \/ EvalIsRateLimited

SpecFn == InitFn /\ [][NextFn]_vars

(***************************************************************************)
(* Properties.                                                             *)
(***************************************************************************)
Count(seq, x) == Cardinality({i \in DOMAIN seq : seq[i] = x})
Last(seq) == seq[Len(seq)]
Resolved == pc = "done"

\* the statuses and transport errors the retry policy names as retryable
RetryableStatuses == {408, 429, 500, 502, 503, 504}
RetryableErrors == {"timeout", "connect", "request"}
RetryableFailure(o) ==
    \/ o.kind = "http" /\ o.status \in RetryableStatuses
    \/ o.kind = "err" /\ o.detail \in RetryableErrors

\* the i-th outcome of the call was answered with a sleep and a new request
Retried(i) == i <= Len(delays)

\* C1: in a remote transcribe call the attempt counter never exceeds
\* max_retries = 3; the call sends at most 4 requests and sleeps at most 3
\* times, whatever the server answers.
C1_AttemptBounded ==
    /\ attempt <= 3
    /\ requests <= 4
    /\ Len(delays) <= 3
    /\ Len(delays) <= attempt + 1
    /\ requests <= attempt + 1

C1_Witness ==
    /\ Resolved
    /\ attempt = 3
    /\ requests = 4
    /\ Len(delays) = 3

\* C2: when every attempt fails retryably until max_retries is exhausted, the
\* call returns an error, and it is the error of the last attempt made: the
\* status and body of the last response, or the last transport error.
C2_LastErrorPropagated ==
    (/\ Resolved
     /\ Len(history) = 4
     /\ \A i \in 1..4 : RetryableFailure(history[i]))
    => /\ result.kind = "err"
       /\ Last(history).kind = "http" =>
            /\ result.ctx \in {"API error", "Deepgram API error", "ElevenLabs API error"}
            /\ result.status = Last(history).status
            /\ result.body \in {Body(4), UnknownError}
       /\ Last(history).kind = "err" =>
            /\ result.status = 0
            /\ result.body = <<Last(history).detail, 4>>

C2_Witness ==
    /\ Resolved
    /\ Len(history) = 4
    /\ history[1].status = 500
    /\ history[2].kind = "err"
    /\ history[3].status = 429
    /\ history[4].status = 503
    /\ result.kind = "err"
    /\ result.status = 503
    /\ result.body = Body(4)

\* C3: a response with a 4xx status other than 408 and 429 resolves the call
\* at once with an API error carrying that status and the body of that
\* response (or "Unknown error" when the body cannot be read): no sleep
\* follows it and no further request is sent, at whatever attempt it occurs.
C3_ClientErrorImmediate ==
    (/\ history # <<>>
     /\ Last(history).kind = "http"
     /\ Last(history).status \in (400..499) \ {408, 429})
    => /\ Resolved
       /\ result.kind = "err"
       /\ result.ctx \in {"API error", "Deepgram API error", "ElevenLabs API error"}
       /\ result.status = Last(history).status
       /\ result.body \in {Body(Len(history)), UnknownError}
       /\ requests = Len(history)
       /\ Len(delays) = Len(history) - 1

C3_Witness ==
    /\ Resolved
    /\ Len(history) = 3
    /\ Last(history).status = 404
    /\ result.status = 404
    /\ result.body = Body(3)
    /\ Len(delays) = 2

\* C4: a remote transcribe call emits exactly one Transcribing event: never
\* more than one, however many retries it performs, and one by the time a
\* call that reached the server resolves.
C4_OneTranscribing ==
    /\ Count(events, "Transcribing") <= 1
    /\ (Resolved /\ requests > 0) => Count(events, "Transcribing") = 1

\* C5: the Uploading event is emitted exactly once, first of all events and
\* before any request is sent; a retry never emits it again and no Uploading
\* event follows a Transcribing event.
C5_UploadingOnceFirst ==
    /\ pc = "start" => events = <<>> /\ requests = 0
    /\ pc # "start" =>
        /\ Len(events) >= 1
        /\ events[1] = "Uploading"
        /\ Count(events, "Uploading") = 1
    /\ requests > 0 => Len(events) >= 1 /\ events[1] = "Uploading"
    /\ \A i, j \in DOMAIN events :
        (events[i] = "Transcribing" /\ i < j) => events[j] # "Uploading"

C5_Witness ==
    /\ Resolved
    /\ attempt = 2
    /\ events = <<"Uploading", "Transcribing", "Transcribing", "Transcribing">>

\* C6 as claimed: a local transcribe call emits exactly one Uploading event
\* followed by exactly one Transcribing event before it resolves.
C6_LocalUploadingThenTranscribing ==
    Resolved => events = <<"Uploading", "Transcribing">>

\* C6 as amended: a local transcribe call emits no Uploading event; it emits
\* exactly one Transcribing event, first thing when transcribe_local starts,
\* and nothing else before it resolves.
C6_LocalTranscribingOnly ==
    /\ pc \in {"start", "blocking"} => events = <<>>
    /\ pc \notin {"start", "blocking"} => events = <<"Transcribing">>

C6_Witness ==
    /\ Resolved
    /\ provider = "local-whisper"
    /\ mode = "async"
    /\ result.kind = "ok"
    /\ events = <<"Transcribing">>

\* C7: 429 on the first two attempts and a well-formed 200 on the third: the
\* call succeeds with the third response's text after exactly two retries,
\* having waited 2000 ms and then 4000 ms and sent exactly three requests.
C7_TwoRateLimitsThenSuccess ==
    (/\ Resolved
     /\ Len(history) = 3
     /\ history[1].kind = "http" /\ history[1].status = 429
     /\ history[2].kind = "http" /\ history[2].status = 429
     /\ history[3] = Http(200, "text"))
    => /\ result = Ok(Text(3))
       /\ delays = <<2000, 4000>>
       /\ attempt = 2
       /\ requests = 3

C7_Witness ==
    /\ Resolved
    /\ history = <<Http(429, "-"), Http(429, "-"), Http(200, "text")>>
    /\ result.kind = "ok"
    /\ delays = <<2000, 4000>>

\* min(base_delay_ms * 2^attempt, max_delay_ms) over the integers; the
\* product is above the cap from attempt 4 on
CappedDelay(att) ==
    IF att >= 14 THEN 16000
    ELSE IF 1000 * 2^att <= 16000 THEN 1000 * 2^att ELSE 16000

\* C8: delay_for_attempt(attempt, rate_limited) is
\* min(base_delay_ms * 2^attempt, max_delay_ms), times rate_limit_multiplier
\* exactly when rate_limited, the multiplier applied after the cap.
C8_DelayFormula ==
    (fn_call.fn = "delay_for_attempt" /\ fn_ret.done)
    => /\ ~fn_ret.panicked
       /\ fn_ret.ms = IF fn_call.rate_limited
                      THEN CappedDelay(fn_call.attempt) * 2
                      ELSE CappedDelay(fn_call.attempt)

\* C9 as claimed: four consecutive retryable failures in one call are
\* followed by the delays [1000, 2000, 4000, 8000] ms, and by
\* [2000, 4000, 8000, 16000] ms when all four are 429 responses.
FourFailures ==
    /\ Resolved
    /\ Len(history) = 4
    /\ \A i \in 1..4 : RetryableFailure(history[i])
AllRateLimited == \A i \in 1..4 : history[i].kind = "http" /\ history[i].status = 429
NoneRateLimited == \A i \in 1..4 : ~(history[i].kind = "http" /\ history[i].status = 429)

C9_FourDelays ==
    /\ (FourFailures /\ NoneRateLimited) => delays = <<1000, 2000, 4000, 8000>>
    /\ (FourFailures /\ AllRateLimited) => delays = <<2000, 4000, 8000, 16000>>

\* C9 as amended: a call that meets four consecutive retryable failures
\* sleeps three times, [1000, 2000, 4000] ms, or [2000, 4000, 8000] ms when
\* all four are 429 responses; the fourth failure (attempt 3) is returned as
\* the call's error without a fourth wait.
C9_ThreeDelays ==
    /\ (FourFailures /\ NoneRateLimited) =>
            delays = <<1000, 2000, 4000>> /\ result.kind = "err" /\ attempt = 3
    /\ (FourFailures /\ AllRateLimited) =>
            delays = <<2000, 4000, 8000>> /\ result.kind = "err" /\ attempt = 3

C9_Witness ==
    /\ FourFailures
    /\ AllRateLimited
    /\ delays = <<2000, 4000, 8000>>
    /\ result.status = 429

C12_BadSuccessBodyIsError ==
    (/\ history # <<>>
     /\ Last(history).kind = "http"
     /\ Last(history).status \in 200..299
     /\ Last(history).detail \in {"malformed", "nochannel", "noalt"})
    => /\ Resolved
       /\ result.kind = "err"
       /\ result.body = Body(Len(history))
       /\ requests = Len(history)
       /\ Len(delays) = Len(history) - 1

C12_Witness ==
    /\ Resolved
    /\ provider = "deepgram"
    /\ Len(history) = 2
    /\ history[1].status = 503
    /\ history[2] = Http(200, "noalt")
    /\ result.kind = "err"
    /\ result.ctx = "Deepgram API returned unexpected response format: no transcript found"

\* C16: with keep_loaded = false a successful local Whisper transcription
\* leaves the cache slot empty, and a transcription that obtains its model
\* from an empty slot has read the model from disk (one more load).
C16_UnloadAfterTranscription ==
    [][/\ (/\ provider = "local-whisper" /\ pc = "infer"
            /\ pc' = "done" /\ result'.kind = "ok"
            /\ ~keep_loaded) => cache' = EmptyCache
       /\ (/\ provider = "local-whisper" /\ pc = "samples"
            /\ cache = EmptyCache
            /\ pc' = "infer") => (loads' = loads + 1 /\ cache'.path = model_path)]_vars

\* a second Whisper transcription of the same path, after the first one
\* unloaded the model, finished with a second disk load
C16_Witness ==
    /\ last_done = [provider |-> "local-whisper", path |-> "a.bin",
                    kind |-> "ok", loads |-> 1]
    /\ provider = "local-whisper" /\ model_path = "a.bin"
    /\ ~keep_loaded
    /\ calls = 2
    /\ pc = "done" /\ result.kind = "ok"
    /\ loads = 2
    /\ cache = EmptyCache

\* the get_model returns of the log, and whether one was a cache hit
IsGet(e) == e.op = "get"
IsHit(e) == e.via \in {"fast", "recheck"}
Gets == SelectSeq(cache_log, IsGet)

C18_ValidatedAlways ==
    \A i \in DOMAIN cache_log :
        LET e == cache_log[i] IN
        IsGet(e) =>
            /\ e.path = "" => (~e.ok /\ e.err = "Whisper model path not configured")
            /\ (e.path # "" /\ ~e.exists) => (~e.ok /\ e.err = "Whisper model not found")

\* C18 (amended): an empty path always fails with the configuration error;
\* a path that does not exist on disk fails with the not-found error unless
\* the slot holds a model loaded from that path, in which case the call is
\* served from the cache without looking at the disk.
C18_ValidatedOnMiss ==
    \A i \in DOMAIN cache_log :
        LET e == cache_log[i] IN
        IsGet(e) =>
            /\ e.path = "" => (~e.ok /\ e.err = "Whisper model path not configured")
            /\ (e.path # "" /\ ~e.exists /\ ~IsHit(e)) =>
                  (~e.ok /\ e.err = "Whisper model not found")
            /\ (e.path # "" /\ ~e.exists /\ IsHit(e)) =>
                  e.err \in {"", "Failed to create whisper state"}

\* both model files were removed while a.bin was cached: a call for a.bin is
\* served from the cache, a call for b.bin fails with not-found
C18_Witness ==
    /\ disk = {}
    /\ Len(cache_log) = 3
    /\ cache_log[1].path = "a.bin" /\ cache_log[1].via = "load" /\ cache_log[1].ok
    /\ cache_log[2].path = "a.bin" /\ IsHit(cache_log[2]) /\ cache_log[2].ok
    /\ ~cache_log[2].exists
    /\ cache_log[3].path = "b.bin" /\ ~cache_log[3].exists
    /\ cache_log[3].err = "Whisper model not found"
    /\ cache = [loaded |-> TRUE, path |-> "a.bin"]

\* C13: a non-blocking remote call that waits in a retry sleep does not
\* occupy the scheduler thread, so every other non-blocking call that has
\* a request to send or a response to handle can run.
C13_RetrySleepYields ==
    \A t \in TaskIds :
        (tasks[t].mode = "async" /\ tasks[t].pc = "sleep") =>
            /\ worker # t
            /\ \A u \in TaskIds \ {t} :
                  (\A w \in TaskIds : tasks[w].mode = "async") => CanRun(u)

\* during one retry sleep of call 1, call 2 sent its request and resolved
C13_Witness ==
    /\ tasks[1].mode = "async" /\ tasks[2].mode = "async"
    /\ tasks[1].pc = "sleep"
    /\ tasks[1].seen = [by |-> 2, stage |-> 2]
    /\ tasks[2].pc = "done" /\ tasks[2].kind = "ok"

\* the indices of the results in arrival order
ArrivalOrder == [k \in DOMAIN asm.arrived |-> asm.arrived[k].index]

\* C19: in whatever order the results arrived, the final transcript is the
\* one word of every chunk exactly once, in increasing index order.
C19_OrderIndependent ==
    \A f \in DOMAIN asm.finals :
        asm.finals[f] = [k \in 1..asm.emitted |-> Word(k - 1)]

\* three results arrived in reverse order and the transcript was produced
C19_Witness ==
    /\ ArrivalOrder = <<2, 1, 0>>
    /\ asm.arrived[1].text = <<Word(1), Word(2)>>
    /\ asm.finals = <<<<Word(0), Word(1), Word(2)>>>>

C28_UnloadOnEveryReturn ==
    [][(/\ provider = "local-whisper" /\ pc = "infer"
        /\ pc' = "done"
        /\ ~keep_loaded) => cache' = EmptyCache]_vars

\* steps of the model cache, told apart by what they change
SlotChanges == cache' # cache
ExplicitUnload == cache' = EmptyCache /\ th' = th
LoadBy(t) == th[t].pc = "slow" /\ th'[t].pc # "slow" /\ loads' = loads + 1
LoadsOtherPath ==
    \E t \in Threads : LoadBy(t) /\ (cache.loaded => th[t].path # cache.path)

\* C29: while keep_loaded is true, a step that changes a loaded slot is an
\* explicit unload_model or the load of a different path, and no step
\* loads the cached path from disk again.
C29_SlotKeptWhileFlagTrue ==
    [][(keep_loaded /\ cache.loaded) =>
          /\ SlotChanges => (ExplicitUnload \/ LoadsOtherPath)
          /\ loads' # loads => LoadsOtherPath]_vars

\* remote transcribe calls leave the model cache and its flag alone
RemoteLeavesCache == [][cache' = cache /\ keep_loaded' = keep_loaded]_vars

\* C30: a thread holds the read lock only inside the fast-path block of
\* get_model and the write lock only inside its slow-path block (or inside
\* unload_model, which is one step here); a thread that holds a ModelGuard,
\* runs inference or is outside the model cache holds no lock.
C30_LockOnlyInsideCache ==
    /\ \A t \in lock.readers : th[t].pc = "fast"
    /\ lock.writer # 0 => th[lock.writer].pc = "slow"
    /\ \A t \in Threads :
          th[t].pc \in {"idle", "write", "guard", "unload", "unloading"} =>
              (t \notin lock.readers /\ lock.writer # t)

\* thread 1 runs inference with its guard while thread 2 holds the write
\* lock to load another model
C30_Witness ==
    /\ th[1] = Holding(1)
    /\ th[2].pc = "slow" /\ th[2].path = "b.bin"
    /\ lock = [readers |-> {}, writer |-> 2]
    /\ cache = [loaded |-> TRUE, path |-> "a.bin"]

CeilDiv(d, c) == (d + c - 1) \div c

\* C22: once the stream has ended the chunker has emitted exactly
\* ceil(D/C) chunks for a stream of D seconds, also when D is a multiple of C
\* (180 s at C = 90 s: 2 chunks); until then it has emitted floor(D/C).
C22_CeilChunks ==
    /\ asm.eos => Len(asm.out) = CeilDiv(asm.captured, chunk_duration)
    /\ ~asm.eos => Len(asm.out) = asm.captured \div chunk_duration

C22_Witness ==
    /\ asm.eos
    /\ asm.captured = 2 * chunk_duration
    /\ Len(asm.out) = 2

ResolvedChunks(a) == Present(a.arrived) \cup a.failed

\* C23: with a local backend at most one chunk is in flight, a chunk is in
\* flight only when every chunk before it has resolved, and the results
\* come in in index order.
C23_LocalSequential ==
    provider \in LocalProviders =>
        /\ Cardinality(asm.inflight) <= 1
        /\ \A i \in asm.inflight : 0..(i - 1) \subseteq ResolvedChunks(asm)
        /\ \A k \in DOMAIN asm.arrived : \A l \in DOMAIN asm.arrived :
              k < l => asm.arrived[k].index < asm.arrived[l].index

C23_Witness ==
    /\ provider \in LocalProviders
    /\ asm.inflight = {1}
    /\ asm.pending = {2}
    /\ Present(asm.arrived) = {0}

\* with a remote backend several chunks are in flight at once
RemoteParallel ==
    /\ provider \in RemoteProviders
    /\ Cardinality(asm.inflight) >= 2

\* C24: the failure of one chunk leaves every stored result in place: what
\* was inserted by index before is there afterwards, unchanged, and the
\* error is recorded.
C24_FailureKeepsResults ==
    [][/\ \A k \in DOMAIN asm.arrived :
            k \in DOMAIN asm'.arrived /\ asm'.arrived[k] = asm.arrived[k]
       /\ asm.failed \subseteq asm'.failed
       /\ asm'.failed # asm.failed =>
            /\ asm'.arrived = asm.arrived
            /\ \A i \in Present(asm.arrived) :
                  ByIndex(asm'.arrived)[i] = ByIndex(asm.arrived)[i]
            /\ asm'.failed \cap Present(asm'.arrived) = {}]_vars

C24_Witness ==
    /\ asm.failed = {1}
    /\ Present(asm.arrived) = {0, 2}

\* C25: after the stop no sample is appended; the flush that follows emits
\* an under-threshold remainder as one final chunk with the next index and
\* nothing when there is no remainder; after it no sample is appended and
\* no chunk is emitted.
C25_StopThenFlush ==
    [][/\ ~asm.capturing => (asm'.captured = asm.captured /\ ~asm'.capturing)
       /\ asm.eos => (asm'.eos /\ asm'.out = asm.out)
       /\ (~asm.eos /\ asm'.eos) =>
            /\ ~asm.capturing
            /\ asm.buffer < chunk_duration
            /\ asm'.out = IF asm.buffer > 0
                          THEN Append(asm.out,
                                      [chunk |-> [index |-> Len(asm.out),
                                                  has_leading_overlap |-> Len(asm.out) > 0],
                                       secs |-> asm.buffer])
                          ELSE asm.out]_vars

C25_Witness ==
    /\ asm.eos
    /\ Len(asm.out) = 2
    /\ asm.out[2].secs < chunk_duration
    /\ asm.captured = chunk_duration + asm.out[2].secs
    /\ asm.inflight = {1}

\* the words of the chunks in P, in the order in which t has them
OwnWords(t, P) == SelectSeq(t, LAMBDA w : w[2] \in P)

\* C26: after a cancellation the result of no abandoned chunk is stored, not
\* even when its call returns late; the final transcript has the words of
\* the completed chunks, each once and in index order, and anything else in
\* it is the overlap a completed chunk carries at its head; the caller is
\* told that the transcript is partial exactly when a chunk was abandoned.
C26_AbandonedExcluded ==
    /\ asm.abandoned \cap Present(asm.arrived) = {}
    /\ \A f \in DOMAIN asm.finals :
        LET t == asm.finals[f]
            P == Present(asm.arrived)
            idx == SortedIndices(P)
        IN  /\ OwnWords(t, P) = [k \in DOMAIN idx |-> Word(idx[k])]
            /\ \A k \in DOMAIN t :
                  t[k][2] \notin P => (t[k][2] + 1 \in P /\ t[k + 1] = Word(t[k][2] + 1))
            /\ asm.partial = (asm.abandoned # {})

C26_Witness ==
    /\ asm.finals # <<>>
    /\ asm.abandoned = {1}
    /\ asm.late = {1}
    /\ Present(asm.arrived) = {0, 2}
    /\ asm.partial

\* the last n frames of fs are all above the threshold
RunAtEnd(fs, n) ==
    /\ Len(fs) >= n
    /\ \A k \in (Len(fs) - n + 1)..Len(fs) : fs[k] > vad_threshold

\* C27: with VAD enabled the gate goes from Silence to Speech on a frame
\* exactly when that frame completes a run of speech_run consecutive frames
\* above the threshold: a shorter burst leaves it in Silence.
C27_SpeechNeedsRun ==
    [][(vad.enabled /\ vad.state = "Silence") =>
          (vad'.state = "Speech" <=> RunAtEnd(vad'.frames, speech_run))]_vars

C27_Witness ==
    /\ vad.enabled
    /\ vad.state = "Speech"
    /\ vad.frames = <<80, 80, 50, 80, 80, 80>>

\* the outcome of a request is retryable (whatever the attempt)
RetryableOutcome(h) ==
    IF h.kind = "http" THEN ~is_success(h.status) /\ is_retryable_status(h.status)
    ELSE is_retryable_error(h.detail)

\* the waits a call makes that saw the outcomes hist: one after each
\* outcome but the last
RetryDelays(hist) ==
    [k \in 1..(Len(hist) - 1) |->
        delay_for_attempt(k - 1, hist[k].kind = "http" /\ is_rate_limited(hist[k].status),
                          FALSE).ms]

\* what a call may return whose last request (the n-th) had the outcome h
ExpectedResults(p, h, n) ==
    IF h.kind = "http"
    THEN IF is_success(h.status) THEN {ParseResponse(p, h.detail, n)}
         ELSE {ApiError(p, h.status, t) : t \in {Body(n), UnknownError}}
    ELSE {SendError(p, h.detail, n)}

\* what a finished call shows is fixed by the provider, the request and the
\* outcomes of its requests, with no regard to the variant
SameAsOtherVariant ==
    IF Multipart(provider) /\ ~mime_ok
    THEN /\ history = <<>> /\ requests = 0 /\ delays = <<>>
         /\ events = <<"Uploading">>
         /\ result = Err("invalid mime type", 0, NoBody)
    ELSE /\ history # <<>>
         /\ requests = Len(history)
         /\ \A k \in 1..(Len(history) - 1) :
               RetryableOutcome(history[k]) /\ k - 1 < max_retries
         /\ ~(RetryableOutcome(history[Len(history)]) /\ Len(history) - 1 < max_retries)
         /\ delays = RetryDelays(history)
         /\ events = <<"Uploading">> \o [k \in 1..Len(history) |-> "Transcribing"]
         /\ result \in ExpectedResults(provider, history[Len(history)], Len(history))

\* the blocking variant could not build its HTTP client
ClientBuildFailed ==
    /\ mode = "sync"
    /\ result = Err("Failed to create HTTP client", 0, NoBody)
    /\ history = <<>> /\ requests = 0 /\ delays = <<>>
    /\ events = <<"Uploading">>

C32_SharedAttemptCounter ==
    /\ Len(delays) <= max_retries
    /\ Len(delays) <= Len(history)
    /\ \A k \in DOMAIN delays :
          /\ RetryableOutcome(history[k])
          /\ delays[k] = delay_for_attempt(k - 1,
                                           /\ history[k].kind = "http"
                                           /\ history[k].status = 429,
                                           FALSE).ms

C32_Witness ==
    /\ Len(delays) = 3
    /\ history[1].kind = "err"
    /\ history[2].kind = "http" /\ history[2].status = 429
    /\ history[3].kind = "err"
    /\ delays = <<1000, 4000, 4000>>
    /\ pc = "done"
    /\ history[4].kind = "http" /\ history[4].status = 503

\* thread t's get_model returns an error in this step
GetFails(t) == th[t].pc \in {"fast", "slow"} /\ th'[t].pc = "idle"

\* C33: a get_model call that fails (empty path, missing file, load failure,
\* state-creation failure) leaves the cache slot as it was: the same model
\* under the same path.
C33_FailedGetKeepsSlot ==
    [][\A t \in Threads :
          GetFails(t) => (cache' = cache /\ cache_ctx' = cache_ctx)]_vars

C33_Witness ==
    /\ cache = [loaded |-> TRUE, path |-> "a.bin"]
    /\ cache_ctx = 1
    /\ loads = 2
    /\ cache_log # <<>>
    /\ LET e == cache_log[Len(cache_log)]
       IN  /\ e.op = "get" /\ ~e.ok
           /\ e.path = "b.bin"
           /\ e.err = "Failed to create whisper state"

\* a disk load that read a model / a call that loaded a model and cached it
IsDiskLoad(e) == IsGet(e) /\ e.loaded
IsCachedLoad(e) == IsGet(e) /\ e.loaded /\ e.ok

\* every state created from the cached model was asked for under the path
\* of the model cached at that time
HitsMatchPath ==
    \A k \in DOMAIN cache_log :
        LET e == cache_log[k]
        IN  (IsGet(e) /\ e.ok /\ IsHit(e)) =>
                \E j \in 1..(k - 1) :
                    /\ IsCachedLoad(cache_log[j])
                    /\ cache_log[j].path = e.path
                    /\ cache_log[j].ctx = e.ctx
                    /\ \A m \in (j + 1)..(k - 1) : ~IsCachedLoad(cache_log[m])

\* C34 (as stated): the recorded path of the slot is non-empty and is the
\* path of the most recent successful disk load, and a state is created
\* from the cached model only for a request with exactly that path.
C34_PathOfLastDiskLoad ==
    /\ cache.loaded =>
          /\ cache.path # ""
          /\ LET ld == SelectSeq(cache_log, IsDiskLoad)
             IN  ld # <<>> /\ ld[Len(ld)].path = cache.path
    /\ HitsMatchPath

\* C34 (amended): the recorded path of the slot is non-empty and is the
\* path of the most recent disk load whose get_model call succeeded (a model
\* read from disk whose create_state fails is dropped and the slot keeps
\* what it had), and a state is created from the cached model only for a
\* request with exactly that path.
C34_PathOfLastCachedLoad ==
    /\ cache.loaded =>
          /\ cache.path # ""
          /\ cache_ctx # 0
          /\ LET ld == SelectSeq(cache_log, IsCachedLoad)
             IN  /\ ld # <<>>
                 /\ ld[Len(ld)].path = cache.path
                 /\ ld[Len(ld)].ctx = cache_ctx
    /\ ~cache.loaded => (cache.path = "" /\ cache_ctx = 0)
    /\ HitsMatchPath

C34_Witness ==
    /\ cache = [loaded |-> TRUE, path |-> "b.bin"]
    /\ Len(cache_log) = 3
    /\ IsCachedLoad(cache_log[1]) /\ cache_log[1].path = "a.bin"
    /\ IsCachedLoad(cache_log[2]) /\ cache_log[2].path = "b.bin"
    /\ IsHit(cache_log[3]) /\ cache_log[3].ok /\ cache_log[3].path = "b.bin"

\* a step of a Parakeet call (not of the application around it)
ParakeetStep == provider = "local-parakeet" /\ pc # "done" /\ pc' # pc

C36_DelayBoundedMonotone ==
    (fn_call.fn = "delay_for_attempt" /\ fn_ret.done /\ ~fn_call.rate_limited)
    => /\ ~fn_ret.panicked
       /\ fn_ret.ms <= max_delay_ms
       /\ \A a \in 0..fn_call.attempt :
             LET d == delay_for_attempt(a, FALSE, fn_call.overflow_checks)
             IN  ~d.panicked /\ d.ms <= fn_ret.ms

\* the callbacks made so far alternate, on_press first
Alternates(cbs) ==
    \A k \in DOMAIN cbs :
        cbs[k] = IF k % 2 = 1 THEN "on_press" ELSE "on_release"

\* C37: for any sequence of key presses and releases (repeats and modifier
\* releases included) the callbacks alternate on_press, on_release, ...,
\* starting with on_press; on_press is called only on a press that makes the
\* combination pressed while the hotkey is not triggered, on_release only on
\* the release of the main key while it is triggered.
C37_CallbacksAlternate ==
    [][/\ Alternates(hk'.calls)
       /\ hk'.triggered = (Len(hk'.calls) % 2 = 1)
       /\ hk'.calls # hk.calls =>
            \/ /\ hk'.calls = Append(hk.calls, "on_press")
               /\ ~hk.triggered
               /\ ~is_pressed(hk.keys)
               /\ is_pressed(hk'.keys)
            \/ /\ hk'.calls = Append(hk.calls, "on_release")
               /\ hk.triggered
               /\ main_key \in hk.keys
               /\ hk'.keys = hk.keys \ {main_key}]_vars

C37_Witness ==
    /\ hk.calls = <<"on_press", "on_release">>
    /\ hk.keys = {"alt"}
    /\ hk.events = MaxKeyEvents
    /\ hk.last = "press"
    /\ ~hk.triggered

\* C38: is_service_running returns true only when its connect succeeded, and
\* it removes the socket file only when no service is listening on it, also
\* while another process creates its IpcServer.
C38_CheckRemovesOnlyStale ==
    [][/\ (ipc'.chk.ret = "true" /\ ipc.chk.ret # "true") =>
             (ipc.chk.pc = "connect" /\ Connects(ipc.file, ipc.listening))
       /\ (ipc.chk.pc = "cleanup" /\ ipc'.chk.pc = "idle" /\ ipc.file # 0) =>
             ipc.file \notin ipc.listening]_vars

\* C39: the drop of an IpcServer removes only the socket file that server
\* created, never the file a newer server has bound at the same path.
C39_DropRemovesOwnSocket ==
    [][\A s \in Servers :
          (ipc.srv[s] = "stopping" /\ ipc'.srv[s] = "dropped" /\ ipc.file # 0) =>
              ipc.file = s]_vars

====
